---- MODULE Spec2Model ----
(***************************************************************************)
(* Chatbot flow builder (FlowBuilderContent, SettingsPanel, MessageNode).  *)
(* The state is the React state of FlowBuilderContent and SettingsPanel    *)
(* plus the local-storage entry 'chatbot-flow'; every action is one event  *)
(* handler (or the mount of the page with its two effects).                *)
(***************************************************************************)
EXTENDS Naturals, Sequences, FiniteSets

VARIABLES
    nodes,            \* useNodesState: array of [id, type, label]
    edges,            \* useEdgesState: array of [source, sourceHandle, target, targetHandle]
    selectedNode,     \* useState<Node | null>: << >> is null, <<n>> the node object clicked
    nodeIdCounter,    \* useState(1)
    resetting,        \* useState(false): the confirmation popup is open
    hasSavedData,     \* useState(false): the Reset Flow button is rendered
    storage,          \* localStorage entry under LOCAL_STORAGE_KEY
    toast,            \* the toast raised by the most recent handler (NoToast if none)
    inputValue,       \* SettingsPanel: useState(originalLabel)
    dirty,            \* SettingsPanel: useState(false)
    stripsNullHandle  \* whether the installed addEdge removes null handle members

vars == <<nodes, edges, selectedNode, nodeIdCounter, resetting, hasSavedData,
          storage, toast, inputValue, dirty, stripsNullHandle>>

----------------------------------------------------------------------------
(* Bounds of the model *)

\* the canvas holds at most MaxNodes nodes (drop is not attempted beyond)
MaxNodes == 2
\* the canvas holds at most MaxEdges edges (connect is not attempted beyond)
MaxEdges == 2
\* nodeIdCounter is not driven beyond MaxId + 1
MaxId == 2

----------------------------------------------------------------------------
(* Values *)

\* id: `node_${nodeIdCounter}`
NodeId(n) == <<"node_", n>>

\* data: { label: 'New message' }
NewLabel == "New message"

\* texts a user types into the settings panel's input
TypedTexts == {"New message", "Hello"}

\* the only entry of NodesPanel's nodeTypes
MessageNodeType == "messageNode"

\* <Handle type="source" .../> and <Handle type="target" .../> carry no id:
\* a Connection drawn between them has sourceHandle and targetHandle null
ConnectionHandle == "null"

NoToast == "none"

----------------------------------------------------------------------------
(* localStorage and JSON *)

\* localStorage.getItem returns null: nothing is stored under the key
NoItem == [kind |-> "absent", nodes |-> << >>, edges |-> << >>]

\* a member of a stored object that is no array (a number, a string, missing)
NotArray == [isArray |-> FALSE, items |-> << >>]

ArrayOf(items) == [isArray |-> TRUE, items |-> items]

\* stored texts: "object" is the JSON text of an object with members nodes and
\* edges, "null" the JSON text null, "invalid" a text JSON.parse rejects,
\* "empty" the empty string
ObjectText(n, e) == [kind |-> "object", nodes |-> n, edges |-> e]

NullText == [kind |-> "null", nodes |-> << >>, edges |-> << >>]

InvalidText == [kind |-> "invalid", nodes |-> << >>, edges |-> << >>]

EmptyText == [kind |-> "empty", nodes |-> << >>, edges |-> << >>]

\* JSON.stringify of one edge: a member whose value is undefined is left out,
\* a member whose value is null is written as null
StringifyHandle(h) == IF h = "undefined" THEN "absent" ELSE h

StringifyEdge(e) ==
    [source |-> e.source, target |-> e.target,
     sourceHandle |-> StringifyHandle(e.sourceHandle),
     targetHandle |-> StringifyHandle(e.targetHandle)]

StringifyNode(n) == [id |-> n.id, type |-> n.type, data |-> [label |-> n.label]]

\* JSONstringify with the edges left out of the object written
JSONstringifyNodesOnly(ns, es) ==
    ObjectText(ArrayOf([i \in 1..Len(ns) |-> StringifyNode(ns[i])]), NotArray)

\* JSON.stringify({ nodes, edges })
JSONstringify(ns, es) ==
    ObjectText(ArrayOf([i \in 1..Len(ns) |-> StringifyNode(ns[i])]),
               ArrayOf([i \in 1..Len(es) |-> StringifyEdge(es[i])]))

\* reading a member that the text leaves out yields undefined
ParseHandle(h) == IF h = "absent" THEN "undefined" ELSE h

ParseEdge(e) ==
    [source |-> e.source, sourceHandle |-> ParseHandle(e.sourceHandle),
     target |-> e.target, targetHandle |-> ParseHandle(e.targetHandle)]

ParseNode(n) == [id |-> n.id, type |-> n.type, label |-> n.data.label]

ParseNodes(m) ==
    IF m.isArray THEN ArrayOf([i \in 1..Len(m.items) |-> ParseNode(m.items[i])])
    ELSE NotArray

ParseEdges(m) ==
    IF m.isArray THEN ArrayOf([i \in 1..Len(m.items) |-> ParseEdge(m.items[i])])
    ELSE NotArray

\* const { nodes: savedNodes, edges: savedEdges } = JSON.parse(saved), inside
\* try: JSON.parse throws on a text that is no JSON, the destructuring throws
\* on null; either way control passes to the catch block
TryParse(saved) ==
    IF saved.kind = "object"
    THEN [caught |-> FALSE, savedNodes |-> ParseNodes(saved.nodes),
          savedEdges |-> ParseEdges(saved.edges)]
    ELSE [caught |-> TRUE, savedNodes |-> NotArray, savedEdges |-> NotArray]

\* if (saved): null and the empty string are falsy
Truthy(saved) == saved.kind \notin {"absent", "empty"}

\* LoadEffect with || in place of && between the two Array.isArray tests
LoadEffectEitherArray(saved, st) ==
    IF ~Truthy(saved) THEN st
    ELSE LET p == TryParse(saved) IN
         IF p.caught THEN [st EXCEPT !.hasSavedData = FALSE]
         ELSE IF p.savedNodes.isArray \/ p.savedEdges.isArray
              THEN [nodes |-> p.savedNodes.items, edges |-> p.savedEdges.items,
                    hasSavedData |-> TRUE]
              ELSE st

\* the first effect: load the stored flow
LoadEffect(saved, st) ==
    IF ~Truthy(saved) THEN st
    ELSE LET p == TryParse(saved) IN
         IF p.caught THEN [st EXCEPT !.hasSavedData = FALSE]
         ELSE IF p.savedNodes.isArray /\ p.savedEdges.isArray
              THEN [nodes |-> p.savedNodes.items, edges |-> p.savedEdges.items,
                    hasSavedData |-> TRUE]
              ELSE st

\* TrackEffect that looks at the edges only
TrackEffectEdgesOnly(saved, st) ==
    IF ~Truthy(saved) THEN [st EXCEPT !.hasSavedData = FALSE]
    ELSE LET p == TryParse(saved) IN
         IF p.caught THEN [st EXCEPT !.hasSavedData = FALSE]
         ELSE [st EXCEPT !.hasSavedData =
                   p.savedEdges.isArray /\ Len(p.savedEdges.items) > 0]

\* the second effect: track whether storage has saved data
TrackEffect(saved, st) ==
    IF ~Truthy(saved) THEN [st EXCEPT !.hasSavedData = FALSE]
    ELSE LET p == TryParse(saved) IN
         IF p.caught THEN [st EXCEPT !.hasSavedData = FALSE]
         ELSE [st EXCEPT !.hasSavedData =
                   \/ (p.savedNodes.isArray /\ Len(p.savedNodes.items) > 0)
                   \/ (p.savedEdges.isArray /\ Len(p.savedEdges.items) > 0)]

\* useNodesState(initialNodes), useEdgesState(initialEdges), useState(false)
InitialFlow == [nodes |-> << >>, edges |-> << >>, hasSavedData |-> FALSE]

\* the state after the component has mounted and both effects have run
Mount(saved) == TrackEffect(saved, LoadEffect(saved, InitialFlow))

\* originalLabel = selectedNode?.data?.label || ''
OriginalLabel(sel) == IF sel = << >> THEN "" ELSE sel[1].label

----------------------------------------------------------------------------
(* The graph library's addEdge, as onConnect uses it.  The repository calls *)
(* addEdge(params, eds) of @xyflow/react and does not fix its release: a   *)
(* release either stores the connection's null handle members as they are  *)
(* or removes them from the edge it stores (reading them then yields       *)
(* undefined).  stripsNullHandle is chosen once, at the start, and covers  *)
(* both.                                                                    *)

\* !handle: null and undefined are both falsy
Falsy(h) == h \in {"null", "undefined"}

\* addEdge's connectionExists: the same connection is already an edge
ConnectionExists(e, eds) ==
    \E i \in 1..Len(eds) :
        /\ eds[i].source = e.source
        /\ eds[i].target = e.target
        /\ (eds[i].sourceHandle = e.sourceHandle
            \/ (Falsy(eds[i].sourceHandle) /\ Falsy(e.sourceHandle)))
        /\ (eds[i].targetHandle = e.targetHandle
            \/ (Falsy(eds[i].targetHandle) /\ Falsy(e.targetHandle)))

\* the handle member of the edge addEdge stores: a library that removes null
\* handle members leaves the member undefined, one that does not keeps null
StoredHandle(h, strips) == IF strips /\ h = "null" THEN "undefined" ELSE h

\* addEdge(params, eds)
AddEdge(params, eds, strips) ==
    IF ConnectionExists(params, eds) THEN eds
    ELSE Append(eds, [source |-> params.source,
                      sourceHandle |-> StoredHandle(params.sourceHandle, strips),
                      target |-> params.target,
                      targetHandle |-> StoredHandle(params.targetHandle, strips)])

----------------------------------------------------------------------------
(* Helpers of the handlers *)

\* edges.find(edge => edge.source === sourceNodeId &&
\*                    edge.sourceHandle === params.sourceHandle) is found
ExistingEdgeFromSource(params, eds) ==
    \E i \in 1..Len(eds) :
        /\ eds[i].source = params.source
        /\ eds[i].sourceHandle = params.sourceHandle

\* the Connection the library hands to onConnect for a line drawn from the
\* source handle of node s to the target handle of node t
Connection(s, t) ==
    [source |-> s, sourceHandle |-> ConnectionHandle,
     target |-> t, targetHandle |-> ConnectionHandle]

\* NodesWithoutTargets with the negation dropped
NodesWithTargets(ns, es) ==
    {i \in 1..Len(ns) : \E j \in 1..Len(es) : es[j].target = ns[i].id}

\* nodes.filter(node => !edges.some(edge => edge.target === node.id)), as
\* the positions of the nodes kept
NodesWithoutTargets(ns, es) ==
    {i \in 1..Len(ns) : ~(\E j \in 1..Len(es) : es[j].target = ns[i].id)}

\* SaveRejection without the test for an empty flow
SaveRejectionNoEmptyTest(ns, es) ==
    IF Cardinality(NodesWithoutTargets(ns, es)) > 1 THEN "Save Error" ELSE ""

\* SaveRejection with the limit on starting nodes off by one
SaveRejectionOffByOne(ns, es) ==
    IF Len(ns) = 0 THEN "Nothing to Save"
    ELSE IF Cardinality(NodesWithoutTargets(ns, es)) > 2 THEN "Save Error"
    ELSE ""

\* the validation of onSave: "" when it passes, else the title of the toast
SaveRejection(ns, es) ==
    IF Len(ns) = 0 THEN "Nothing to Save"
    ELSE IF Cardinality(NodesWithoutTargets(ns, es)) > 1 THEN "Save Error"
    ELSE ""

\* nds.filter(node => node.id !== selectedNode.id)
DeleteNodeFrom(ns, id) == LET Keep(n) == n.id # id IN SelectSeq(ns, Keep)

\* eds.filter(edge => edge.source !== id && edge.target !== id)
DeleteEdgesOf(es, id) ==
    LET Keep(e) == e.source # id /\ e.target # id IN SelectSeq(es, Keep)

\* nds.map(node => node.id === nodeId ? {...node, data: {...node.data, ...data}} : node)
UpdateNodeIn(ns, id, label) ==
    [i \in 1..Len(ns) |->
        IF ns[i].id = id THEN [ns[i] EXCEPT !.label = label] ELSE ns[i]]

\* confirmReset without setNodeIdCounter(1)
CounterKeptOnReset(counter) == counter

\* setNodeIdCounter(1) of confirmReset
CounterAfterReset(counter) == 1

\* the node onDrop creates
NewNode(counter) ==
    [id |-> NodeId(counter), type |-> MessageNodeType, label |-> NewLabel]

----------------------------------------------------------------------------
(* The page: mount and handlers *)

\* the state of a freshly mounted page over the stored text saved
Mounted(saved) ==
    LET m == Mount(saved) IN
    /\ nodes = m.nodes
    /\ edges = m.edges
    /\ hasSavedData = m.hasSavedData
    /\ selectedNode = << >>
    /\ nodeIdCounter = 1
    /\ resetting = FALSE
    /\ toast = NoToast
    /\ inputValue = ""
    /\ dirty = FALSE

\* the first visit: nothing is stored
Init ==
    /\ storage = NoItem
    /\ stripsNullHandle \in BOOLEAN
    /\ Mounted(storage)

\* the page is loaded again: all React state is rebuilt from the storage
Reload ==
    /\ UNCHANGED <<storage, stripsNullHandle>>
    /\ selectedNode' = << >>
    /\ nodeIdCounter' = 1
    /\ resetting' = FALSE
    /\ toast' = NoToast
    /\ inputValue' = ""
    /\ dirty' = FALSE
    /\ LET m == Mount(storage) IN
       /\ nodes' = m.nodes
       /\ edges' = m.edges
       /\ hasSavedData' = m.hasSavedData

\* the Reset Flow button, rendered while hasSavedData
handleReset ==
    /\ hasSavedData
    /\ resetting' = TRUE
    /\ toast' = NoToast
    /\ UNCHANGED <<nodes, edges, selectedNode, nodeIdCounter, hasSavedData,
                   storage, inputValue, dirty, stripsNullHandle>>

\* "Yes, Reset" of the confirmation popup, rendered while resetting
confirmReset ==
    /\ resetting
    /\ storage' = NoItem
    /\ nodes' = << >>
    /\ edges' = << >>
    /\ selectedNode' = << >>
    /\ nodeIdCounter' = CounterAfterReset(nodeIdCounter)
    /\ hasSavedData' = FALSE
    /\ resetting' = FALSE
    /\ toast' = NoToast
    /\ inputValue' = ""
    /\ dirty' = FALSE
    /\ UNCHANGED stripsNullHandle

\* "Cancel" of the confirmation popup
cancelReset ==
    /\ resetting
    /\ resetting' = FALSE
    /\ toast' = NoToast
    /\ UNCHANGED <<nodes, edges, selectedNode, nodeIdCounter, hasSavedData,
                   storage, inputValue, dirty, stripsNullHandle>>

\* a click on the i-th node: the settings panel shows it (its state starts
\* from, or is reset by its effect to, the label of the node clicked)
onNodeClick ==
    \E i \in 1..Len(nodes) :
        /\ selectedNode' = <<nodes[i]>>
        /\ inputValue' = OriginalLabel(<<nodes[i]>>)
        /\ dirty' = FALSE
        /\ toast' = NoToast
        /\ UNCHANGED <<nodes, edges, nodeIdCounter, resetting, hasSavedData,
                       storage, stripsNullHandle>>

\* a click on the pane
onPaneClick ==
    /\ selectedNode' = << >>
    /\ inputValue' = ""
    /\ dirty' = FALSE
    /\ toast' = NoToast
    /\ UNCHANGED <<nodes, edges, nodeIdCounter, resetting, hasSavedData,
                   storage, stripsNullHandle>>

\* the back button of the settings panel
onDeselectNode ==
    /\ selectedNode # << >>
    /\ selectedNode' = << >>
    /\ inputValue' = ""
    /\ dirty' = FALSE
    /\ toast' = NoToast
    /\ UNCHANGED <<nodes, edges, nodeIdCounter, resetting, hasSavedData,
                   storage, stripsNullHandle>>

\* onConnect(params)
OnConnectWith(params) ==
    /\ IF ExistingEdgeFromSource(params, edges)
       THEN /\ toast' = "Connection Error"
            /\ edges' = edges
       ELSE /\ edges' = AddEdge(params, edges, stripsNullHandle)
            /\ toast' = NoToast
    /\ UNCHANGED <<nodes, selectedNode, nodeIdCounter, resetting, hasSavedData,
                   storage, inputValue, dirty, stripsNullHandle>>

\* a line drawn from the source handle of one node to the target handle of
\* one (possibly the same) node
onConnect ==
    /\ Len(edges) < MaxEdges
    /\ \E i \in 1..Len(nodes), j \in 1..Len(nodes) :
          OnConnectWith(Connection(nodes[i].id, nodes[j].id))

\* a node type of the nodes panel dropped on the canvas
onDrop ==
    /\ Len(nodes) < MaxNodes
    /\ nodeIdCounter <= MaxId
    /\ nodes' = Append(nodes, NewNode(nodeIdCounter))
    /\ nodeIdCounter' = nodeIdCounter + 1
    /\ toast' = NoToast
    /\ UNCHANGED <<edges, selectedNode, resetting, hasSavedData, storage,
                   inputValue, dirty, stripsNullHandle>>

\* SettingsPanel: typing into the input
handleTextChange ==
    /\ selectedNode # << >>
    /\ \E v \in TypedTexts :
          /\ inputValue' = v
          /\ dirty' = (v # OriginalLabel(selectedNode))
    /\ toast' = NoToast
    /\ UNCHANGED <<nodes, edges, selectedNode, nodeIdCounter, resetting,
                   hasSavedData, storage, stripsNullHandle>>

\* SettingsPanel: the Save button (disabled unless dirty) calls onUpdateNode
handleSave ==
    /\ selectedNode # << >>
    /\ dirty
    /\ nodes' = UpdateNodeIn(nodes, selectedNode[1].id, inputValue)
    /\ dirty' = FALSE
    /\ toast' = NoToast
    /\ UNCHANGED <<edges, selectedNode, nodeIdCounter, resetting, hasSavedData,
                   storage, inputValue, stripsNullHandle>>

\* SettingsPanel: the Delete Node button
handleDeleteNode ==
    /\ selectedNode # << >>
    /\ nodes' = DeleteNodeFrom(nodes, selectedNode[1].id)
    /\ edges' = DeleteEdgesOf(edges, selectedNode[1].id)
    /\ selectedNode' = << >>
    /\ inputValue' = ""
    /\ dirty' = FALSE
    /\ toast' = NoToast
    /\ UNCHANGED <<nodeIdCounter, resetting, hasSavedData, storage,
                   stripsNullHandle>>

\* the Save Changes button
onSave ==
    /\ UNCHANGED <<nodes, edges, selectedNode, nodeIdCounter, resetting,
                   inputValue, dirty, stripsNullHandle>>
    /\ IF SaveRejection(nodes, edges) # ""
       THEN /\ toast' = SaveRejection(nodes, edges)
            /\ UNCHANGED <<storage, hasSavedData>>
       ELSE /\ storage' = JSONstringify(nodes, edges)
            /\ hasSavedData' = TRUE
            /\ toast' = "Flow Saved"

Next ==
    \/ Reload
    \/ handleReset
    \/ confirmReset
    \/ cancelReset
    \/ onNodeClick
    \/ onPaneClick
    \/ onDeselectNode
    \/ onConnect
    \/ onDrop
    \/ handleTextChange
    \/ handleSave
    \/ handleDeleteNode
    \/ onSave

Spec == Init /\ [][Next]_vars

----------------------------------------------------------------------------
(* A first visit over whatever the storage holds *)

\* texts an earlier program, or the user, may have left under the key
InitialStorages ==
    LET n1 == StringifyNode(NewNode(1))
        e1 == StringifyEdge(Connection(NodeId(1), NodeId(1))) IN
    {NoItem, EmptyText, InvalidText, NullText,
     ObjectText(NotArray, NotArray),
     ObjectText(ArrayOf(<<n1>>), NotArray),
     ObjectText(NotArray, ArrayOf(<<e1>>)),
     ObjectText(NotArray, ArrayOf(<< >>))}

InitAnyStorage ==
    /\ storage \in InitialStorages
    /\ stripsNullHandle \in BOOLEAN
    /\ Mounted(storage)

SpecAnyStorage == InitAnyStorage /\ [][Next]_vars

----------------------------------------------------------------------------
(* Notions the properties are stated in *)

\* both name the same handle of a node: a message node has one source handle
\* and it carries no id, so null and undefined both name it
SameHandle(h1, h2) == h1 = h2 \/ (Falsy(h1) /\ Falsy(h2))

\* the positions of the nodes of ns that no edge of es enters
StartingPoints(ns, es) ==
    {i \in 1..Len(ns) : \A j \in 1..Len(es) : es[j].target # ns[i].id}

\* some edge of es leaves the source handle h of node s
HandleInUse(s, h, es) ==
    \E k \in 1..Len(es) : es[k].source = s /\ SameHandle(es[k].sourceHandle, h)

\* the page as a first visit with empty storage shows it
FreshStart ==
    /\ storage = NoItem
    /\ nodes = << >>
    /\ edges = << >>
    /\ selectedNode = << >>
    /\ nodeIdCounter = 1
    /\ hasSavedData = FALSE
    /\ resetting = FALSE

----------------------------------------------------------------------------
(* Properties *)

\* C1: a connection attempt adds the new edge exactly when no existing edge
\* leaves the same source handle of the same source node; otherwise the edges
\* are left as they are. Edges entering the target never matter.
C1_ConnectAddsExactlyWhenHandleFree ==
    [][\A i \in 1..Len(nodes), j \in 1..Len(nodes) :
          LET params == Connection(nodes[i].id, nodes[j].id) IN
          OnConnectWith(params) =>
              IF HandleInUse(params.source, params.sourceHandle, edges)
              THEN edges' = edges
              ELSE /\ Len(edges') = Len(edges) + 1
                   /\ SubSeq(edges', 1, Len(edges)) = edges
                   /\ edges'[Len(edges')].source = params.source
                   /\ edges'[Len(edges')].target = params.target]_vars

\* C2: a save attempt writes the record and sets hasSavedData exactly when the
\* flow has at least one node and at most one node without an incoming edge;
\* otherwise the record, hasSavedData, nodes and edges stay as they are.
C2_SaveExactlyWhenValid ==
    [][onSave =>
          IF Len(nodes) >= 1 /\ Cardinality(StartingPoints(nodes, edges)) <= 1
          THEN /\ storage'.kind = "object"
               /\ TryParse(storage').savedNodes = ArrayOf(nodes)
               /\ TryParse(storage').savedEdges = ArrayOf(edges)
               /\ hasSavedData'
          ELSE UNCHANGED <<storage, hasSavedData, nodes, edges>>]_vars

\* a save was just rejected for its starting points while an earlier record
\* is stored
C2_Witness ==
    /\ toast = "Save Error"
    /\ storage.kind = "object"
    /\ Len(nodes) = 2

\* C3: in every reachable state no two edges of the in-memory flow leave the
\* same source handle of the same source node.
C3_OneEdgePerSourceHandle ==
    \A i \in 1..Len(edges), j \in 1..Len(edges) :
        (i # j /\ edges[i].source = edges[j].source)
            => ~SameHandle(edges[i].sourceHandle, edges[j].sourceHandle)

\* C4: whenever a record is stored, its node array is non-empty and at most
\* one of its nodes has no incoming edge among its stored edges.
C4_StoredRecordIsValid ==
    storage # NoItem =>
        /\ storage.kind = "object"
        /\ storage.nodes.isArray /\ storage.edges.isArray
        /\ Len(storage.nodes.items) >= 1
        /\ Cardinality(StartingPoints(storage.nodes.items, storage.edges.items)) <= 1

\* a record is stored while the in-memory flow has since become one that
\* could not be saved
C4_Witness ==
    /\ storage # NoItem
    /\ Cardinality(StartingPoints(nodes, edges)) > 1

\* C5: the stored record changes only by a successful save or a confirmed
\* reset; a successful save stores exactly the current node and edge arrays;
\* a page reload sets the in-memory nodes and edges to the stored pair.
C5_StoredRecordIsLastSave ==
    [][/\ storage' # storage =>
             \/ (toast' = "Flow Saved" /\ onSave)
             \/ (storage' = NoItem /\ confirmReset)
       /\ (toast' = "Flow Saved" /\ onSave) =>
             /\ TryParse(storage').savedNodes = ArrayOf(nodes)
             /\ TryParse(storage').savedEdges = ArrayOf(edges)
       /\ (Reload /\ storage # NoItem) =>
             /\ JSONstringify(nodes', edges') = storage
             /\ ArrayOf(nodes') = TryParse(storage).savedNodes
             /\ ArrayOf(edges') = TryParse(storage).savedEdges
       /\ (Reload /\ storage = NoItem) => (nodes' = << >> /\ edges' = << >>)]_vars

\* the page was reloaded over a stored flow that has an edge
C5_Witness ==
    /\ storage # NoItem
    /\ nodeIdCounter = 1
    /\ Len(nodes) = 2
    /\ Len(edges) >= 1
    /\ ArrayOf(edges) = TryParse(storage).savedEdges

\* the stored text does not parse (JSON.parse or the destructuring throws)
ParseFails(s) == s.kind \in {"invalid", "null"}

\* the stored text parses to an object whose nodes or edges is no array
MemberNotArray(s) == s.kind = "object" /\ ~(s.nodes.isArray /\ s.edges.isArray)

\* C6: on load, if the stored text fails to parse, or parses to a value whose
\* nodes or edges member is no array, the flow starts empty, no message is
\* raised and the stored text is left as it is; after a parse failure
\* hasSavedData is false.
C6_CorruptStorageLoadsEmpty ==
    [][Reload =>
          /\ (ParseFails(storage) \/ MemberNotArray(storage)) =>
                /\ nodes' = << >>
                /\ edges' = << >>
                /\ toast' = NoToast
                /\ storage' = storage
          /\ ParseFails(storage) => ~hasSavedData']_vars

\* the page is up over a text whose edges member is no array, with the Reset
\* button shown
C6_Witness ==
    /\ MemberNotArray(storage)
    /\ storage.nodes.isArray
    /\ nodes = << >>
    /\ edges = << >>
    /\ hasSavedData
    /\ toast = NoToast

\* C7 as stated: every flow that was just saved has exactly one node without
\* an incoming edge.
C7_SavedFlowHasExactlyOneStart ==
    toast = "Flow Saved" => Cardinality(StartingPoints(nodes, edges)) = 1

\* C7 as amended: every flow that was just saved has at most one node without
\* an incoming edge (none when every node is entered, as on a cycle or a
\* self-connection).
C7_SavedFlowHasAtMostOneStart ==
    toast = "Flow Saved" => Cardinality(StartingPoints(nodes, edges)) <= 1

\* a flow of two nodes in which every node is entered was just saved
C7_Witness ==
    /\ toast = "Flow Saved"
    /\ Len(nodes) = 2
    /\ StartingPoints(nodes, edges) = {}

\* C8: after confirmReset the state is that of a first visit with empty
\* storage.
C8_ConfirmResetIsFreshStart ==
    [][confirmReset => FreshStart']_vars

\* the popup is open over a saved flow with a node selected
C8_Witness ==
    /\ resetting
    /\ storage # NoItem
    /\ Len(nodes) = 2
    /\ selectedNode # << >>
    /\ nodeIdCounter > 1

\* C9: the Reset Flow button is shown exactly when a record is stored.
C9_ResetShownIffStored ==
    hasSavedData <=> storage # NoItem

\* the page was reloaded over a stored flow without edges
C9_Witness ==
    /\ hasSavedData
    /\ storage # NoItem
    /\ storage.edges.items = << >>
    /\ nodeIdCounter = 1
    /\ Len(nodes) = 1
    /\ toast = NoToast

\* C10: no two nodes of the in-memory flow have the same id.
C10_NodeIdsUnique ==
    \A i \in 1..Len(nodes), j \in 1..Len(nodes) :
        i # j => nodes[i].id # nodes[j].id

\* the label the node with this id has in the flow (the first such node)
CurrentLabel(ns, id) ==
    LET first == CHOOSE i \in 1..Len(ns) :
                     /\ ns[i].id = id
                     /\ \A k \in 1..(i - 1) : ns[k].id # id
    IN ns[first].label

\* C11: while a node is selected, the Save button of the settings panel is
\* enabled (dirty) exactly when the text in the input differs from the label
\* the selected node has in the flow now.
C11_DirtyIffInputDiffersFromCurrentLabel ==
    (selectedNode # << >> /\ \E i \in 1..Len(nodes) : nodes[i].id = selectedNode[1].id)
        => (dirty <=> inputValue # CurrentLabel(nodes, selectedNode[1].id))

====
